---------------------------- MODULE Spec2Model ----------------------------
(***************************************************************************)
(* A model of src/main.py (SecureFarcasterBot): the retrying request       *)
(* client (make_request), the feed fetcher (get_feed), the action          *)
(* executors (like_cast, recast, follow_user, post_cast), the focused      *)
(* action runner (execute_focused_action), and the two controllers         *)
(* (run_focused_mode with its batch loop, run_continuous_mode).            *)
(*                                                                         *)
(* The program is sequential.  One action of the model is the code that    *)
(* runs between two interactions with the remote API: an HTTP attempt of   *)
(* make_request is one step whose outcome (transport exception, status,    *)
(* Retry-After header, body) the environment chooses.  An exception the    *)
(* code does not catch ends the process: pc = "crashed".                   *)
(*                                                                         *)
(* Not modelled: the User-Agent rotation (line 147), the printed text,     *)
(* the token encryption and the file loading.                              *)
(***************************************************************************)
EXTENDS Integers, Sequences, FiniteSets, TLC

\* ------------------------------------------------------------------ bounds
\* max_retries is drawn from 1..MaxRetries
MaxRetries == 4
\* every per-account target count is drawn from 1..MaxTarget
MaxTarget == 3
\* the feed draws its usable casts from the casts 1..MaxCasts
MaxCasts == 3
\* the account list holds 1..MaxAccounts credentials
MaxAccounts == 2
\* continuous mode is followed for MaxCycles cycles
MaxCycles == 2
\* batch_size is drawn from 1..MaxBatch
MaxBatch == 2

\* ------------------------------------------------------- program constants
HTTP_OK == 200
HTTP_CREATED == 201
HTTP_TOO_MANY == 429
DefaultRetryAfter == 60
DefaultBatchSize == 50
DefaultFeedLimit == 100
SecondsPerHour == 3600

\* rate_limit_delay of the default configuration
rate_limit_delay == [min |-> 3, max |-> 8, follow_min |-> 8, follow_max |-> 15]

\* action_map: the seven plans the operator can select, in declared order
action_map ==
    { <<"like">>, <<"recast">>, <<"follow">>,
      <<"like", "recast">>, <<"like", "follow">>, <<"recast", "follow">>,
      <<"like", "recast", "follow">> }

\* ----------------------------------------------------------------- helpers
Min(a, b) == IF a < b THEN a ELSE b
Max(a, b) == IF a > b THEN a ELSE b

RECURSIVE Pow2(_)
Pow2(n) == IF n = 0 THEN 1 ELSE 2 * Pow2(n - 1)

RECURSIVE SumSeq(_)
SumSeq(s) == IF s = <<>> THEN 0 ELSE Head(s) + SumSeq(Tail(s))

Range(s) == { s[i] : i \in DOMAIN s }

\* s[:n] of Python
Take(s, n) == SubSeq(s, 1, Min(n, Len(s)))

\* every ordering random.shuffle can leave a list in
Shuffles(s) ==
    { [i \in DOMAIN s |-> s[p[i]]] :
        p \in { q \in [DOMAIN s -> DOMAIN s] : \A i, j \in DOMAIN s : i # j => q[i] # q[j] } }

\* --------------------------------------------------- the remote API's answers
\* response.status_code of the answers the remote API gives: the two success
\* codes the executors test for, an error status (404) and the rate limit
Statuses == {HTTP_OK, HTTP_CREATED, 404, HTTP_TOO_MANY}

\* Optional[requests.Response]: None, or a response with its status
None == [is_none |-> TRUE, status_code |-> 0]
Response(s) == [is_none |-> FALSE, status_code |-> s]

\* bool(response) of requests: Response.__bool__ is Response.ok, false from 400 on
Truthy(r) == ~r.is_none /\ r.status_code < 400

\* The Retry-After header of a 429 answer: absent, or its text as characters
Absent == <<"absent">>
RetryAfterHeaders == { Absent, <<"5">>, <<"-", "1">>, <<"W", "e", "d">> }

DigitValue == ("0" :> 0) @@ ("1" :> 1) @@ ("2" :> 2) @@ ("3" :> 3) @@ ("4" :> 4) @@
              ("5" :> 5) @@ ("6" :> 6) @@ ("7" :> 7) @@ ("8" :> 8) @@ ("9" :> 9)

RECURSIVE DigitsValue(_, _)
DigitsValue(s, acc) ==
    IF s = <<>> THEN acc ELSE DigitsValue(Tail(s), 10 * acc + DigitValue[Head(s)])

AllDigits(s) == s # <<>> /\ \A i \in DOMAIN s : s[i] \in DOMAIN DigitValue

\* int(text) of Python: an optional sign and decimal digits, else ValueError
ValueError == [raised |-> TRUE, value |-> 0]
IntResult(v) == [raised |-> FALSE, value |-> v]
PyInt(s) ==
    IF s # <<>> /\ Head(s) = "-" /\ AllDigits(Tail(s)) THEN IntResult(0 - DigitsValue(Tail(s), 0))
    ELSE IF s # <<>> /\ Head(s) = "+" /\ AllDigits(Tail(s)) THEN IntResult(DigitsValue(Tail(s), 0))
    ELSE IF AllDigits(s) THEN IntResult(DigitsValue(s, 0))
    ELSE ValueError

\* int(response.headers.get('Retry-After', 60))
RetryAfter(h) == IF h = Absent THEN IntResult(DefaultRetryAfter) ELSE PyInt(h)

\* time.sleep(secs) raises ValueError for a negative length
SleepRaises(secs) == secs < 0

\* ------------------------------------------------------------------ the feed
\* The author of cast h: casts 1 and 2 share author 1, casts 3 and 4 author 2, ...
AuthorOf(h) == (h + 1) \div 2

\* data['result']['items'] is drawn from these items: the casts 1..MaxCasts, an
\* item with no 'cast', a cast with no hash (0) and a cast whose author has no fid (0)
ItemPool ==
    { [cast |-> TRUE, hash |-> h, fid |-> AuthorOf(h)] : h \in 1..MaxCasts }
    \cup { [cast |-> FALSE, hash |-> 0, fid |-> 0],
           [cast |-> TRUE, hash |-> 0, fid |-> 1],
           [cast |-> TRUE, hash |-> MaxCasts + 1, fid |-> 0] }

\* the listing order of the items in a feed body
ItemKey(it) == (IF it.cast THEN 0 ELSE 1) + 2 * it.fid + 2 * (MaxCasts + 2) * it.hash

RECURSIVE Listing(_)
Listing(S) ==
    IF S = {} THEN <<>>
    ELSE LET first == CHOOSE x \in S : \A y \in S : ItemKey(x) <= ItemKey(y)
         IN  <<first>> \o Listing(S \ {first})

\* the item lists a parseable feed body can hold
FeedBodies == { Listing(S) : S \in SUBSET ItemPool }

\* get_feed keeps an item that has a cast with a hash and an author fid
Usable(it) == it.cast /\ it.hash # 0 /\ it.fid # 0
Target(it) == [hash |-> it.hash, fid |-> it.fid]

\* cast_data of get_feed for a parsed body
CastData(items, limit) ==
    LET kept == SelectSeq(Take(items, limit), Usable)
    IN  [i \in DOMAIN kept |-> Target(kept[i])]

\* limit=max(100, target_count * 2)
FeedLimit(n) == Max(DefaultFeedLimit, n * 2)

\* -------------------------------------------------------------------- state
VARIABLES
    \* configuration and operator input, fixed once the run starts
    mode,              \* "focus" (run_focused_mode) or "continuous" (run_continuous_mode)
    accounts,          \* self.accounts: the loaded credentials
    messages,          \* self.messages
    max_retries,       \* self.max_retries
    batch_size,        \* self.batch_size
    selected_actions,  \* action_map[choice]
    action_targets,    \* action -> target per account
    post_cast,         \* the operator's answer to "Post cast too?"
    interval_hours,    \* continuous mode's interval
    \* the controller
    pc,                \* where the program stands
    cycle,             \* continuous mode's cycle number
    account_idx,       \* idx of the account loop, from 1
    action_pos,        \* position of the action loop in selected_actions
    total_stats,       \* the statistics of the run or cycle
    batching,          \* the batch branch of line 387 was taken for this action
    remaining,         \* batch loop
    batch_count,       \* batch loop
    current_batch,     \* batch loop
    wait,              \* the last jittered wait: what it follows and its range
    waited,            \* the seconds the last countdown_timer ran
    \* execute_focused_action
    requested,         \* target_count as passed in
    target_count,      \* target_count, reduced when the feed is short
    feed_success,      \* get_feed: the flag it returned
    cast_data,         \* get_feed: the targets it returned
    feed_count,        \* len(cast_data)
    selected_casts,
    idx,               \* idx of the target loop, from 1
    success_count,
    followed_fids,
    success,           \* the value execute_focused_action returned
    \* make_request
    endpoint,
    attempt,
    response,
    \* like_cast, recast, follow_user, post_cast
    action_ok,         \* the value the action executor returned
    \* what the current call has done so far
    attempts,          \* make_request: each HTTP request issued and what followed
    results,           \* runner: per processed target "ok", "failed" or "skipped"
    api_calls,         \* runner: the like/recast/follow calls issued
    delays,            \* runner: the jittered delays slept
    feed_fetches,      \* runner: the get_feed calls issued
    batches,           \* the target counts passed to the runner for this account and action
    batch_waits,       \* the inter-batch waits for this account and action
    journal,           \* the calls and waits of the run or cycle so far, in order
    report,            \* the statistics the run or cycle printed at its end
    started,           \* the runs or cycles begun so far
    followed_before,   \* the authors followed with success by the runner calls for this account that have returned
    error              \* the exception that ended the process, if any

config_vars == <<mode, accounts, messages, max_retries, batch_size, selected_actions,
                 action_targets, post_cast, interval_hours>>
loop_vars == <<cycle, account_idx, action_pos, total_stats, waited, journal, report, started,
               followed_before>>
batch_vars == <<batching, remaining, batch_count, current_batch, batches, batch_waits>>
runner_vars == <<requested, target_count, feed_success, cast_data, feed_count, selected_casts,
                 idx, success_count, followed_fids, results, api_calls, delays, feed_fetches>>
request_vars == <<endpoint, attempt, response, attempts>>
vars == <<mode, accounts, messages, max_retries, batch_size, selected_actions,
          action_targets, post_cast, interval_hours,
          pc, cycle, account_idx, action_pos, total_stats, batching, remaining,
          batch_count, current_batch, wait, waited,
          requested, target_count, feed_success, cast_data, feed_count, selected_casts,
          idx, success_count, followed_fids, success, endpoint, attempt, response,
          action_ok, attempts, results, api_calls, delays, feed_fetches,
          batches, batch_waits, journal, report, started, followed_before, error>>

NoWait == [after |-> "none", lo |-> 0, hi |-> 0]

\* an action loop that walks the plan from its end
ReverseAction == selected_actions[Len(selected_actions) + 1 - action_pos]

\* the action the action loop stands at
action == selected_actions[action_pos]

\* statistics that are zeroed for the first cycle only and carried over after it
StaleStats ==
    IF DOMAIN total_stats = {}
    THEN [k \in Range(selected_actions) \cup (IF post_cast THEN {"posts"} ELSE {}) |-> 0]
    ELSE total_stats

\* total_stats = {action: 0 for action in selected_actions}, plus 'posts' if post_cast
FreshStats ==
    [k \in Range(selected_actions) \cup (IF post_cast THEN {"posts"} ELSE {}) |-> 0]

\* nothing has been printed
NoReport == [k \in {} |-> 0]

\* lines 420-423 and 543-546: the count of each selected action, and of the
\* posts when posting was asked for
Report(stats) ==
    [k \in Range(selected_actions) \cup (IF post_cast THEN {"posts"} ELSE {}) |-> stats[k]]

\* time.sleep(random.uniform(lo, hi)) after `what`: no code reads the number
\* drawn, so the state keeps the interval it was drawn from
Slept(what, lo, hi) == [after |-> what, lo |-> lo, hi |-> hi]

\* An entry of the journal: post_cast ("post") or execute_focused_action (its
\* action kind) was called for account i with target count `asked` (a post: 1)
\* and returned `got` (a post: 1 for True, 0 for False); Pending while the
\* call runs.  A wait is an entry too.
Pending == 0 - 1
Called(i, what, n) == [account |-> i, what |-> what, asked |-> n, got |-> Pending]
Waited(i, what) == [account |-> i, what |-> what, asked |-> 0, got |-> 0]

\* the call the journal ends with has returned n
Got(j, n) == [j EXCEPT ![Len(j)].got = n]

\* --------------------------------------------------------------------- Init
\* A configuration and operator input: mode, number of accounts, messages,
\* max_retries, batch_size, the selected plan, its targets, the post answer
Config(m, n, msgs, r, b, sel, tg, p) ==
    [ mode |-> m, accounts |-> [i \in 1..n |-> i], messages |-> msgs, max_retries |-> r,
      batch_size |-> b, selected_actions |-> sel, action_targets |-> tg, post_cast |-> p,
      interval_hours |-> 1 ]

Modes == {"focus", "continuous"}
SinglePlans == { sel \in action_map : Len(sel) = 1 }
SameTarget(sel, t) == [a \in Range(sel) |-> t]

\* every retry budget, on a one-account run of one action kind
RequestConfigs ==
    { Config("focus", 1, <<>>, r, MaxBatch, sel, SameTarget(sel, t), FALSE) :
        r \in 1..MaxRetries, sel \in SinglePlans, t \in 1..2 }

\* every target count for each action kind: in single-pass mode with every
\* batch size, in continuous mode, which never reads batch_size, with one
RunnerConfigs ==
    { Config("focus", 1, <<>>, 1, b, sel, SameTarget(sel, t), FALSE) :
        b \in 1..MaxBatch, sel \in SinglePlans, t \in 1..MaxTarget }
    \cup { Config("continuous", 1, <<>>, 1, 1, sel, SameTarget(sel, t), FALSE) :
              sel \in SinglePlans, t \in 1..MaxTarget }

\* every plan of action_map over every number of accounts, in both modes
PlanConfigs ==
    { Config(m, n, <<>>, 1, MaxBatch, sel, SameTarget(sel, 1), FALSE) :
        m \in Modes, n \in 1..MaxAccounts, sel \in action_map }

\* two action kinds with different targets
MixedConfigs ==
    { Config(m, 1, <<>>, 1, 1, <<"like", "follow">>, tg, FALSE) :
        m \in Modes, tg \in [{"like", "follow"} -> 1..2] }

\* the post step: asked for or not, with and without loaded messages
PostConfigs ==
    { Config(m, n, msgs, 1, MaxBatch, <<"like">>, SameTarget(<<"like">>, 1), p) :
        m \in Modes, n \in 1..MaxAccounts, msgs \in {<<>>, <<1>>}, p \in BOOLEAN }

\* the default batch size with a plan of 120 likes, one account, single pass
ScenarioConfigs ==
    { Config("focus", 1, <<>>, 1, DefaultBatchSize, <<"like">>, SameTarget(<<"like">>, 120), FALSE) }

\* main, lines 649-650: the interval typed in, `int(interval) if
\* interval.isdigit() else 1`, can be 0 or any hours
IntervalConfigs ==
    { [Config("continuous", 1, <<>>, 1, MaxBatch, <<"like">>, SameTarget(<<"like">>, 1), FALSE)
          EXCEPT !.interval_hours = h] : h \in {0, 2} }

\* The configurations and operator inputs a run starts from.
Configs ==
    RequestConfigs \cup RunnerConfigs \cup PlanConfigs \cup MixedConfigs
        \cup PostConfigs \cup ScenarioConfigs \cup IntervalConfigs

InitWith(c) ==
    /\ mode = c.mode
    /\ accounts = c.accounts
    /\ messages = c.messages
    /\ max_retries = c.max_retries
    /\ batch_size = c.batch_size
    /\ selected_actions = c.selected_actions
    /\ action_targets = c.action_targets
    /\ post_cast = c.post_cast
    /\ interval_hours = c.interval_hours
    /\ pc = "start"
    /\ cycle = 1
    /\ account_idx = 0
    /\ action_pos = 0
    /\ total_stats = [k \in {} |-> 0]
    /\ batching = FALSE
    /\ remaining = 0
    /\ batch_count = 0
    /\ current_batch = 0
    /\ wait = NoWait
    /\ waited = 0
    /\ requested = 0
    /\ target_count = 0
    /\ feed_success = FALSE
    /\ cast_data = <<>>
    /\ feed_count = 0
    /\ selected_casts = <<>>
    /\ idx = 0
    /\ success_count = 0
    /\ followed_fids = {}
    /\ success = 0
    /\ endpoint = "none"
    /\ attempt = 0
    /\ response = None
    /\ action_ok = FALSE
    /\ attempts = <<>>
    /\ results = <<>>
    /\ api_calls = 0
    /\ delays = 0
    /\ feed_fetches = 0
    /\ batches = <<>>
    /\ batch_waits = 0
    /\ journal = <<>>
    /\ report = NoReport
    /\ started = 0
    /\ followed_before = {}
    /\ error = "none"

Init == \E c \in Configs : InitWith(c)

\* ------------------------------------------------------------- make_request
\* where make_request returns to: its caller is known by the endpoint
ReturnPoint(ep) ==
    CASE ep = "feed-items" -> "get_feed"
      [] ep = "casts" -> "post_cast"
      [] OTHER -> "executor"

\* make_request is called: the attempt loop starts at attempt 0
CallRequest(ep) ==
    /\ endpoint' = ep
    /\ attempt' = 0
    /\ response' = None
    /\ attempts' = <<>>
    /\ pc' = "request"

\* the caller has used the response: the call's locals are gone
DropRequest ==
    /\ endpoint' = "none"
    /\ attempt' = 0
    /\ response' = None
    /\ attempts' = <<>>

\* one HTTP request of the call and what followed it
Failed(slept, secs) ==
    [result |-> "exception", status |-> 0, header |-> Absent, slept |-> slept, secs |-> secs]
RateLimited(h, slept, secs) ==
    [result |-> "429", status |-> HTTP_TOO_MANY, header |-> h, slept |-> slept, secs |-> secs]
Answered(s) ==
    [result |-> "response", status |-> s, header |-> Absent, slept |-> FALSE, secs |-> 0]

\* a loop that runs one attempt too many
LoopContinuesOnePast(a) == a < max_retries

\* for attempt in range(self.max_retries): another attempt follows attempt a
LoopContinues(a) == a + 1 < max_retries

\* a loop whose `continue` retries the same attempt
SameAttempt(a) == a

\* for attempt in range(self.max_retries): the attempt that follows attempt a
NextAttempt(a) == a + 1

\* line 167: attempt < self.max_retries - 1
RetriesLeft(a) == a < max_retries - 1

\* a linear backoff
BackoffLinear(a) == a + 1

\* line 168: time.sleep(2 ** attempt)
Backoff(a) == Pow2(a)

\* the loop of line 145 goes to its next attempt, or is over: the function
\* ends without a return statement and the caller gets None
LoopStep ==
    IF LoopContinues(attempt)
    THEN /\ attempt' = NextAttempt(attempt)
         /\ UNCHANGED pc
    ELSE /\ pc' = ReturnPoint(endpoint)
         /\ UNCHANGED attempt

\* lines 165-170: session.request raises a RequestException
RequestFails ==
    /\ pc = "request"
    /\ IF RetriesLeft(attempt)
       THEN /\ attempts' = Append(attempts, Failed(TRUE, Backoff(attempt)))
            /\ LoopStep
            /\ response' = IF LoopContinues(attempt) THEN response ELSE None
       ELSE /\ attempts' = Append(attempts, Failed(FALSE, 0))
            /\ pc' = ReturnPoint(endpoint)
            /\ response' = None
            /\ UNCHANGED attempt
    /\ UNCHANGED <<endpoint, error, wait, success, action_ok>>
    /\ UNCHANGED <<config_vars, loop_vars, batch_vars, runner_vars>>

\* lines 157-161: the answer is a 429 with Retry-After header h; int() or
\* time.sleep() may raise ValueError, which nothing catches; else the call
\* sleeps and the loop goes on
RequestRateLimited ==
    /\ pc = "request"
    /\ \E h \in RetryAfterHeaders :
         LET retry_after == RetryAfter(h) IN
         IF retry_after.raised \/ SleepRaises(retry_after.value)
         THEN /\ attempts' = Append(attempts, RateLimited(h, FALSE, 0))
              /\ error' = "ValueError"
              /\ pc' = "crashed"
              /\ response' = Response(HTTP_TOO_MANY)
              /\ UNCHANGED attempt
         ELSE /\ attempts' = Append(attempts, RateLimited(h, TRUE, retry_after.value))
              /\ LoopStep
              /\ response' = IF LoopContinues(attempt) THEN Response(HTTP_TOO_MANY) ELSE None
              /\ UNCHANGED error
    /\ UNCHANGED <<endpoint, wait, success, action_ok>>
    /\ UNCHANGED <<config_vars, loop_vars, batch_vars, runner_vars>>

\* a client that hands an error status to its caller as no response
ErrorsAsNone(r) == IF r.status_code >= 400 THEN None ELSE r

\* line 163: return response
ReturnedResponse(r) == r

\* line 163: any other answer is returned as it is
RequestResponds ==
    /\ pc = "request"
    /\ \E s \in Statuses \ {HTTP_TOO_MANY} :
         /\ response' = ReturnedResponse(Response(s))
         /\ attempts' = Append(attempts, Answered(s))
    /\ pc' = ReturnPoint(endpoint)
    /\ UNCHANGED <<endpoint, attempt, error, wait, success, action_ok>>
    /\ UNCHANGED <<config_vars, loop_vars, batch_vars, runner_vars>>

\* ---------------------------------------------------------- action executors
\* like_cast, recast, follow_user: response.status_code == 200 if response else False
EngagementSucceeded(r) == IF Truthy(r) THEN r.status_code = HTTP_OK ELSE FALSE

\* a post_cast that takes 200 for its success code
PostSucceededOn200(r) == IF Truthy(r) THEN r.status_code = HTTP_OK ELSE FALSE

\* post_cast: response.status_code == 201 if response else False
PostSucceeded(r) == IF Truthy(r) THEN r.status_code = HTTP_CREATED ELSE FALSE

\* like_cast, recast, follow_user (lines 202-215): make_request has returned
\* and the executor returns its verdict to the runner
EngagementReturn ==
    /\ pc = "executor"
    /\ action_ok' = EngagementSucceeded(response)
    /\ pc' = "action_ret"
    /\ UNCHANGED <<error, wait, success>>
    /\ UNCHANGED <<config_vars, loop_vars, batch_vars, runner_vars, request_vars>>

\* post_cast (lines 217-220): make_request has returned and post_cast
\* returns its verdict to the controller
PostCastReturn ==
    /\ pc = "post_cast"
    /\ action_ok' = PostSucceeded(response)
    /\ pc' = "post_ret"
    /\ UNCHANGED <<error, wait, success>>
    /\ UNCHANGED <<config_vars, loop_vars, batch_vars, runner_vars, request_vars>>

\* the endpoint each action kind calls
EndpointOf(a) ==
    CASE a = "like" -> "cast-likes"
      [] a = "recast" -> "recasts"
      [] a = "follow" -> "follows"

\* ---------------------------------------------------- execute_focused_action
\* a followed set kept on the bot, which outlives the invocation
KeptFollowed == followed_fids \cup followed_before

\* line 247: followed_fids = set(), a local of the invocation
NewFollowed == {}

\* execute_focused_action(bearer_token, account_idx, action, n) is entered:
\* it calls get_feed, which calls make_request
StartRunner(n) ==
    /\ requested' = n
    /\ target_count' = n
    /\ feed_success' = FALSE
    /\ cast_data' = <<>>
    /\ feed_count' = 0
    /\ selected_casts' = <<>>
    /\ idx' = 0
    /\ success_count' = 0
    /\ followed_fids' = NewFollowed
    /\ results' = <<>>
    /\ api_calls' = 0
    /\ delays' = 0
    /\ feed_fetches' = 1
    /\ CallRequest("feed-items")

\* get_feed lines 182 and 197-200: no response, or a status other than 200,
\* is returned as (False, [])
FeedFailed ==
    /\ pc = "get_feed"
    /\ ~(Truthy(response) /\ response.status_code = HTTP_OK)
    /\ feed_success' = FALSE
    /\ cast_data' = <<>>
    /\ pc' = "feed_ret"
    /\ UNCHANGED <<action_ok, error, wait, success>>
    /\ UNCHANGED <<requested, target_count, feed_count, selected_casts, idx, success_count,
                   followed_fids, results, api_calls, delays, feed_fetches>>
    /\ UNCHANGED <<config_vars, loop_vars, batch_vars, request_vars>>

\* get_feed line 183: response.json() raises on a body that is not JSON, and
\* nothing between here and main catches it
FeedUnparsable ==
    /\ pc = "get_feed"
    /\ Truthy(response) /\ response.status_code = HTTP_OK
    /\ error' = "JSONDecodeError"
    /\ pc' = "crashed"
    /\ UNCHANGED <<action_ok, wait, success>>
    /\ UNCHANGED <<config_vars, loop_vars, batch_vars, runner_vars, request_vars>>

\* get_feed lines 183-196: a 200 answer with a parsed body is returned as
\* (True, cast_data), cast_data holding the usable items among the first `limit`
FeedParsed ==
    /\ pc = "get_feed"
    /\ Truthy(response) /\ response.status_code = HTTP_OK
    /\ \E items \in FeedBodies : cast_data' = CastData(items, FeedLimit(target_count))
    /\ feed_success' = TRUE
    /\ pc' = "feed_ret"
    /\ UNCHANGED <<action_ok, error, wait, success>>
    /\ UNCHANGED <<requested, target_count, feed_count, selected_casts, idx, success_count,
                   followed_fids, results, api_calls, delays, feed_fetches>>
    /\ UNCHANGED <<config_vars, loop_vars, batch_vars, request_vars>>

\* the runner has used what get_feed returned and does not read it again
DropFeed ==
    /\ feed_success' = FALSE
    /\ cast_data' = <<>>

\* line 231: if not success or not cast_data
NoTargets == ~feed_success \/ cast_data = <<>>

\* lines 231-233: with a failed or an empty feed the runner returns 0
FeedEmpty ==
    /\ pc = "feed_ret"
    /\ NoTargets
    /\ success' = 0
    /\ pc' = "runner_ret"
    /\ DropFeed
    /\ DropRequest
    /\ UNCHANGED <<action_ok, error, wait>>
    /\ UNCHANGED <<requested, target_count, feed_count, selected_casts, idx, success_count,
                   followed_fids, results, api_calls, delays, feed_fetches>>
    /\ UNCHANGED <<config_vars, loop_vars, batch_vars>>

\* a runner that keeps its target on a short feed
UnadjustedTarget(n, available) == n

\* lines 237-239: the target count the runner works with, given len(cast_data)
AdjustedTarget(n, available) == IF available < n THEN available ELSE n

\* lines 235-247: reduce the target to the feed's length, shuffle, select the
\* first target_count casts and start the target loop
SelectTargets ==
    /\ pc = "feed_ret"
    /\ ~NoTargets
    /\ feed_count' = Len(cast_data)
    /\ target_count' = AdjustedTarget(target_count, Len(cast_data))
    /\ \E shuffled \in Shuffles(cast_data) :
         selected_casts' = Take(shuffled, target_count')
    /\ success_count' = 0
    /\ followed_fids' = NewFollowed
    /\ idx' = 1
    /\ pc' = "loop"
    /\ DropFeed
    /\ DropRequest
    /\ UNCHANGED <<action_ok, error, wait, success>>
    /\ UNCHANGED <<requested, results, api_calls, delays, feed_fetches>>
    /\ UNCHANGED <<config_vars, loop_vars, batch_vars>>

\* a runner with no deduplication
NeverFollowed(fid) == FALSE

\* a runner that skips every author it has met, followed or not
AlreadySeen(fid) ==
    action = "follow" /\ \E j \in 1..(idx - 1) : selected_casts[j].fid = fid

\* line 267: the follow of this target is skipped
AlreadyFollowed(fid) == action = "follow" /\ fid \in followed_fids

\* lines 249-268: the loop takes the next target and calls its action executor
LoopCall ==
    /\ pc = "loop"
    /\ idx <= Len(selected_casts)
    /\ ~AlreadyFollowed(selected_casts[idx].fid)
    /\ api_calls' = api_calls + 1
    /\ CallRequest(EndpointOf(action))
    /\ UNCHANGED <<action_ok, error, wait, success>>
    /\ UNCHANGED <<config_vars, loop_vars, batch_vars>>
    /\ UNCHANGED <<requested, target_count, feed_success, cast_data, feed_count, selected_casts,
                   idx, success_count, followed_fids, results, delays, feed_fetches>>

\* lines 272-275: an author already followed in this run counts as a success,
\* with no call and no delay
LoopSkip ==
    /\ pc = "loop"
    /\ idx <= Len(selected_casts)
    /\ AlreadyFollowed(selected_casts[idx].fid)
    /\ success_count' = success_count + 1
    /\ results' = Append(results, "skipped")
    /\ idx' = idx + 1
    /\ UNCHANGED <<action_ok, pc, error, wait, success>>
    /\ UNCHANGED <<config_vars, loop_vars, batch_vars, request_vars>>
    /\ UNCHANGED <<requested, target_count, feed_success, cast_data, feed_count,
                   selected_casts, followed_fids, api_calls, delays, feed_fetches>>

\* lines 297-298: the loop is over and the runner returns success_count
LoopExit ==
    /\ pc = "loop"
    /\ idx > Len(selected_casts)
    /\ success' = success_count
    /\ followed_before' = followed_before \cup followed_fids
    /\ pc' = "runner_ret"
    /\ UNCHANGED <<action_ok, error, wait>>
    /\ UNCHANGED <<cycle, account_idx, action_pos, total_stats, waited, journal, report, started>>
    /\ UNCHANGED <<config_vars, batch_vars, runner_vars, request_vars>>

\* a runner that compares the position with the target count it was passed
DelayBeforeRequested(i) == i < requested

\* line 283: `if idx < target_count`, target_count being the count after the
\* adjustment of lines 237-239: a delay follows the target at position i
DelayFollows(i) == i < target_count

\* lines 284-295: the jittered delay after an action of kind a
ActionDelay(a) ==
    IF a = "follow"
    THEN Slept("action", rate_limit_delay.follow_min, rate_limit_delay.follow_max)
    ELSE Slept("action", rate_limit_delay.min, rate_limit_delay.max)

\* a runner that remembers the author of a follow that failed, too
FollowedAnyway(fids, fid, ok) == fids \cup {fid}

\* lines 270-271: if success: followed_fids.add(author_fid)
Followed(fids, fid, ok) == IF ok THEN fids \cup {fid} ELSE fids

\* lines 260-295: the action executor has returned; count, remember a followed
\* author, and sleep the jittered delay unless this was the last target
ActionReturn ==
    /\ pc = "action_ret"
    /\ followed_fids' = IF action = "follow"
                        THEN Followed(followed_fids, selected_casts[idx].fid, action_ok)
                        ELSE followed_fids
    /\ success_count' = IF action_ok THEN success_count + 1 ELSE success_count
    /\ results' = Append(results, IF action_ok THEN "ok" ELSE "failed")
    /\ IF DelayFollows(idx)
       THEN /\ wait' = ActionDelay(action)
            /\ delays' = delays + 1
       ELSE UNCHANGED <<wait, delays>>
    /\ idx' = idx + 1
    /\ pc' = "loop"
    /\ DropRequest
    /\ UNCHANGED <<error, success>>
    /\ action_ok' = FALSE
    /\ UNCHANGED <<config_vars, loop_vars, batch_vars>>
    /\ UNCHANGED <<requested, target_count, feed_success, cast_data, feed_count,
                   selected_casts, api_calls, feed_fetches>>

\* --------------------------------------------------------------- controllers
\* total_stats[k] += n
AddStat(stats, k, n) == [stats EXCEPT ![k] = @ + n]

\* run_focused_mode lines 359-363: fresh statistics, then the first account
StartFocus ==
    /\ pc = "start"
    /\ mode = "focus"
    /\ total_stats' = FreshStats
    /\ journal' = <<>>
    /\ account_idx' = 1
    /\ pc' = "account"
    /\ UNCHANGED <<action_ok, cycle, action_pos, waited, error, wait, success>>
    /\ UNCHANGED <<config_vars, batch_vars, runner_vars, request_vars>>
    /\ report' = NoReport
    /\ started' = started + 1
    /\ followed_before' = {}

\* run_continuous_mode lines 500-509: a cycle starts with fresh statistics
\* (the first MaxCycles cycles are followed)
StartCycle ==
    /\ pc = "start"
    /\ mode = "continuous"
    /\ cycle <= MaxCycles
    /\ total_stats' = FreshStats
    /\ journal' = <<>>
    /\ account_idx' = 1
    /\ pc' = "account"
    /\ UNCHANGED <<action_ok, cycle, action_pos, waited, error, wait, success>>
    /\ UNCHANGED <<config_vars, batch_vars, runner_vars, request_vars>>
    /\ report' = NoReport
    /\ started' = started + 1
    /\ followed_before' = {}

\* lines 370 and 516: the post step runs
PostStepRuns == post_cast /\ messages # <<>>

\* lines 370-374 and 516-520: with posting on and a message loaded, post_cast
\* is called
BeginAccountPost ==
    /\ pc = "account"
    /\ PostStepRuns
    /\ \E m \in Range(messages) : CallRequest("casts")
    /\ journal' = Append(journal, Called(account_idx, "post", 1))
    /\ UNCHANGED <<action_ok, error, wait, success>>
    /\ UNCHANGED <<cycle, account_idx, action_pos, total_stats, waited>>
    /\ UNCHANGED <<config_vars, batch_vars, runner_vars>>
    /\ UNCHANGED <<report, started, followed_before>>

\* lines 370, 384 and 516, 530: no post step; the action loop starts
BeginAccountNoPost ==
    /\ pc = "account"
    /\ ~PostStepRuns
    /\ action_pos' = 1
    /\ pc' = "actions"
    /\ UNCHANGED <<action_ok, cycle, account_idx, total_stats, waited, journal, error, wait,
                   success>>
    /\ UNCHANGED <<config_vars, batch_vars, runner_vars, request_vars>>
    /\ UNCHANGED <<report, started, followed_before>>

\* a post step that sleeps only after a successful post
PostWaitOnSuccess(ok) == ok

\* lines 380-382 and 526-528: the sleep stands after the if/else, so it
\* follows the post whatever post_cast returned
PostWaitFollows(ok) == TRUE

\* lines 374-382 and 520-528: post_cast has returned; count a success, sleep
\* uniform(5, 10) either way, and start the action loop
PostReturn ==
    /\ pc = "post_ret"
    /\ total_stats' = IF action_ok
                      THEN AddStat(total_stats, "posts", 1)
                      ELSE total_stats
    /\ IF PostWaitFollows(action_ok)
       THEN /\ wait' = Slept("post", 5, 10)
            /\ journal' = Append(Got(journal, IF action_ok THEN 1 ELSE 0),
                                 Waited(account_idx, "post_wait"))
       ELSE /\ journal' = Got(journal, IF action_ok THEN 1 ELSE 0)
            /\ UNCHANGED wait
    /\ action_pos' = 1
    /\ pc' = "actions"
    /\ DropRequest
    /\ UNCHANGED <<cycle, account_idx, waited, error, success>>
    /\ action_ok' = FALSE
    /\ UNCHANGED <<config_vars, batch_vars, runner_vars>>
    /\ UNCHANGED <<report, started, followed_before>>

\* line 387: the target is divided into batches (run_focused_mode only;
\* run_continuous_mode, lines 530-533, passes the whole target)
Batched(target) == mode = "focus" /\ target > batch_size

\* a batch loop that forgets what remains: every batch is a full one
BatchSizeIgnoringRemaining(target, left) == Min(batch_size, target)

\* lines 389 and 394: current_batch = min(min(self.batch_size, target), remaining)
BatchSize(target, left) == Min(Min(batch_size, target), left)

\* lines 384-391: the next action of the plan has a target above the batch
\* size: the batch loop is set up
DispatchBatched ==
    /\ pc = "actions"
    /\ action_pos <= Len(selected_actions)
    /\ Batched(action_targets[action])
    /\ batching' = TRUE
    /\ remaining' = action_targets[action]
    /\ batch_count' = 0
    /\ batches' = <<>>
    /\ batch_waits' = 0
    /\ pc' = "batch"
    /\ UNCHANGED <<action_ok, current_batch, error, wait, success>>
    /\ UNCHANGED <<config_vars, loop_vars, runner_vars, request_vars>>

\* lines 408-409 and 530-532: the runner is called with the whole target
DispatchDirect ==
    /\ pc = "actions"
    /\ action_pos <= Len(selected_actions)
    /\ ~Batched(action_targets[action])
    /\ batching' = FALSE
    /\ batches' = <<action_targets[action]>>
    /\ batch_waits' = 0
    /\ StartRunner(action_targets[action])
    /\ journal' = Append(journal, Called(account_idx, action, action_targets[action]))
    /\ UNCHANGED <<action_ok, remaining, batch_count, current_batch, error, wait, success>>
    /\ UNCHANGED <<cycle, account_idx, action_pos, total_stats, waited>>
    /\ UNCHANGED config_vars
    /\ UNCHANGED <<report, started, followed_before>>

\* line 393: while remaining > 0
BatchLoopContinues(left) == left > 0

\* lines 393-400: the batch loop calls the runner with the next batch
BatchNext ==
    /\ pc = "batch"
    /\ BatchLoopContinues(remaining)
    /\ current_batch' = BatchSize(action_targets[action], remaining)
    /\ batch_count' = batch_count + 1
    /\ batches' = Append(batches, current_batch')
    /\ StartRunner(current_batch')
    /\ journal' = Append(journal, Called(account_idx, action, current_batch'))
    /\ UNCHANGED <<action_ok, batching, remaining, batch_waits, error, wait, success>>
    /\ UNCHANGED <<cycle, account_idx, action_pos, total_stats, waited>>
    /\ UNCHANGED config_vars
    /\ UNCHANGED <<report, started, followed_before>>

\* a batch loop that waits after every batch
BatchWaitAlways(left) == TRUE

\* line 404: a wait follows the batch
BatchWaitFollows(left) == left > 0

\* lines 401-407: the runner has returned to the batch loop; add its count,
\* and sleep uniform(30, 60) unless nothing remains
BatchReturn ==
    /\ pc = "runner_ret"
    /\ batching
    /\ total_stats' = AddStat(total_stats, action, success)
    /\ remaining' = remaining - current_batch
    /\ IF BatchWaitFollows(remaining')
       THEN /\ wait' = Slept("batch", 30, 60)
            /\ batch_waits' = batch_waits + 1
            /\ journal' = Append(Got(journal, success), Waited(account_idx, "batch_wait"))
       ELSE /\ journal' = Got(journal, success)
            /\ UNCHANGED <<wait, batch_waits>>
    /\ IF BatchLoopContinues(remaining')
       THEN /\ pc' = "batch"
            /\ UNCHANGED action_pos
       ELSE /\ action_pos' = action_pos + 1
            /\ pc' = "actions"
    /\ UNCHANGED <<action_ok, cycle, account_idx, waited, error, success>>
    /\ UNCHANGED <<batching, batch_count, current_batch, batches>>
    /\ UNCHANGED <<config_vars, runner_vars, request_vars>>
    /\ UNCHANGED <<report, started, followed_before>>

\* lines 409-410 and 532-533: the runner has returned to the action loop
DirectReturn ==
    /\ pc = "runner_ret"
    /\ ~batching
    /\ total_stats' = AddStat(total_stats, action, success)
    /\ journal' = Got(journal, success)
    /\ action_pos' = action_pos + 1
    /\ pc' = "actions"
    /\ UNCHANGED <<action_ok, cycle, account_idx, waited, error, wait, success>>
    /\ UNCHANGED <<config_vars, batch_vars, runner_vars, request_vars>>
    /\ UNCHANGED <<report, started, followed_before>>

\* lines 412 and 535: a wait follows account i
AccountWaitFollows(i) == i < Len(accounts)

\* lines 363 and 509: for idx, bearer_token in enumerate(self.accounts, 1)
MoreAccounts == account_idx < Len(accounts)

\* lines 412-415 and 535-538: sleep uniform(15, 30) before the next account
AccountWait ==
    IF AccountWaitFollows(account_idx)
    THEN /\ wait' = Slept("account", 15, 30)
         /\ journal' = Append(journal, Waited(account_idx, "account_wait"))
    ELSE UNCHANGED <<wait, journal>>

\* lines 412-415 and 535-538: the plan of this account is done; wait and go
\* to the next account
NextAccount ==
    /\ pc = "actions"
    /\ action_pos > Len(selected_actions)
    /\ MoreAccounts
    /\ AccountWait
    /\ account_idx' = account_idx + 1
    /\ followed_before' = {}
    /\ pc' = "account"
    /\ UNCHANGED <<action_ok, cycle, action_pos, total_stats, waited, error, success>>
    /\ UNCHANGED <<config_vars, batch_vars, runner_vars, request_vars>>
    /\ UNCHANGED <<report, started>>

\* lines 412-424: after the last account run_focused_mode reports and returns
FinishFocus ==
    /\ pc = "actions"
    /\ action_pos > Len(selected_actions)
    /\ ~MoreAccounts
    /\ mode = "focus"
    /\ AccountWait
    /\ pc' = "done"
    /\ UNCHANGED <<action_ok, error, success>>
    /\ UNCHANGED <<cycle, account_idx, action_pos, total_stats, waited>>
    /\ UNCHANGED <<config_vars, batch_vars, runner_vars, request_vars>>
    /\ report' = Report(total_stats)
    /\ UNCHANGED <<started, followed_before>>

\* line 550: wait_seconds = interval_hours * 3600
WaitSeconds == interval_hours * SecondsPerHour

\* countdown_timer, lines 427-438: end_time is `seconds` from now and the loop
\* sleeps one second at a time while time.time() < end_time; with sleeps of
\* exactly one second the seconds slept are the first count that is not
\* below `seconds`
Countdown(seconds) == CHOOSE t \in 0..Max(seconds, 0) : ~(t < seconds)

\* lines 535-559: after the last account the cycle reports, countdown_timer
\* blocks for wait_seconds, and the next cycle starts
FinishCycle ==
    /\ pc = "actions"
    /\ action_pos > Len(selected_actions)
    /\ ~MoreAccounts
    /\ mode = "continuous"
    /\ AccountWait
    /\ waited' = Countdown(WaitSeconds)
    /\ cycle' = cycle + 1
    /\ pc' = "start"
    /\ UNCHANGED <<action_ok, account_idx, action_pos, total_stats, error, success>>
    /\ UNCHANGED <<config_vars, batch_vars, runner_vars, request_vars>>
    /\ report' = Report(total_stats)
    /\ UNCHANGED <<started, followed_before>>

Next ==
    \/ EngagementReturn
    \/ PostCastReturn
    \/ StartFocus
    \/ StartCycle
    \/ BeginAccountPost
    \/ BeginAccountNoPost
    \/ PostReturn
    \/ DispatchBatched
    \/ DispatchDirect
    \/ BatchNext
    \/ BatchReturn
    \/ DirectReturn
    \/ NextAccount
    \/ FinishFocus
    \/ FinishCycle
    \/ FeedFailed
    \/ FeedUnparsable
    \/ FeedParsed
    \/ FeedEmpty
    \/ SelectTargets
    \/ LoopCall
    \/ LoopSkip
    \/ LoopExit
    \/ ActionReturn
    \/ RequestFails
    \/ RequestRateLimited
    \/ RequestResponds

Spec == Init /\ [][Next]_vars

\* The program is one sequential process that the interpreter keeps running:
\* whenever it has a next step, it takes one.
FairSpec == Spec /\ WF_vars(Next)

\* ----------------------------------------------------------------- properties
\* make_request has returned to its caller, which has not yet used the result
Returned == pc \in {"get_feed", "post_cast", "executor"}

\* execute_focused_action is running
InRunner ==
    \/ pc \in {"get_feed", "feed_ret", "executor", "action_ret", "loop", "runner_ret"}
    \/ pc = "request" /\ endpoint # "casts"

Count(s, v) == Cardinality({ i \in DOMAIN s : s[i] = v })
CountResult(v) == Cardinality({ i \in DOMAIN attempts : attempts[i].result = v })
DistinctAuthors(casts) == Cardinality({ casts[i].fid : i \in DOMAIN casts })

\* the action whose batches the variable batches holds, once the action loop
\* has moved past it
FinishedAction == selected_actions[action_pos - 1]

\* C1: in run_focused_mode every target count the batch loop (or the direct
\* call) passes to the runner for one account and action is > 0 and
\* <= batch_size; while the loop runs the sizes passed and what remains add up
\* to the target, and once the action is finished they sum to exactly the target
C1_BatchSizesSumToTarget ==
    mode = "focus" =>
        /\ \A i \in DOMAIN batches : batches[i] > 0 /\ batches[i] <= batch_size
        /\ pc = "batch" => SumSeq(batches) + remaining = action_targets[action]
        /\ (pc \in {"actions", "done"} /\ action_pos > 1) =>
               SumSeq(batches) = action_targets[FinishedAction]

C1_Witness ==
    /\ mode = "focus"
    /\ pc = "actions"
    /\ action_pos > 1
    /\ Len(batches) = 2
    /\ batches[1] = batch_size
    /\ batches[2] < batch_size

AllRateLimited == attempts # <<>> /\ \A i \in DOMAIN attempts : attempts[i].result = "429"

BadHeader(h) == RetryAfter(h).raised \/ SleepRaises(RetryAfter(h).value)

AllFailed == attempts # <<>> /\ \A i \in DOMAIN attempts : attempts[i].result = "exception"

\* C4: when every attempt of a call ends in a transport failure, the call
\* issues at most max_retries requests, sleeps 2^attempt seconds (attempt from
\* 0) after each failure but the max_retries-th, after which it does not
\* sleep, and returns None after exactly max_retries requests
C4_TransportFailureBackoff ==
    AllFailed =>
        /\ Len(attempts) <= max_retries
        /\ \A i \in DOMAIN attempts :
              IF i < max_retries
              THEN attempts[i].slept /\ attempts[i].secs = 2 ^ (i - 1)
              ELSE ~attempts[i].slept
        /\ pc = "request" => Len(attempts) < max_retries
        /\ Returned => response.is_none /\ Len(attempts) = max_retries
        /\ pc # "crashed"

C4_Witness ==
    /\ Returned
    /\ AllFailed
    /\ response.is_none
    /\ max_retries = 4
    /\ Len(attempts) = 4

\* the sleep C5 claims for a Retry-After header
ClaimedSleep(h) ==
    IF h = Absent \/ PyInt(h).raised THEN DefaultRetryAfter ELSE PyInt(h).value

\* C5: after a 429 answer the call sleeps the seconds of the Retry-After
\* header, or 60 seconds when the header is absent or not an integer, and in
\* each case goes on without raising
C5_RetryAfterSleep ==
    /\ \A i \in DOMAIN attempts :
          attempts[i].result = "429" =>
              attempts[i].slept /\ attempts[i].secs = ClaimedSleep(attempts[i].header)
    /\ error # "ValueError"

\* C6: like, recast and follow report success exactly when the client
\* returned a response with status 200, post exactly when it returned one with
\* status 201; an absent response is a failure, and no executor raises: the
\* process only ever ends in make_request's 429 handling or in get_feed
C6_ExecutorClassification ==
    /\ pc = "action_ret" =>
          (action_ok <=> (~response.is_none /\ response.status_code = 200))
    /\ pc = "post_ret" =>
          (action_ok <=> (~response.is_none /\ response.status_code = 201))
    /\ pc = "crashed" =>
          \/ error = "ValueError" /\ attempts[Len(attempts)].result = "429"
          \/ error = "JSONDecodeError" /\ endpoint = "feed-items"

C6_Witness ==
    /\ pc = "post_ret"
    /\ ~response.is_none
    /\ response.status_code = 200
    /\ ~action_ok

\* C7 as claimed: a Follow run never returns a success count above the number
\* of distinct authors among its selected targets
C7_FollowSuccessWithinAuthors ==
    (pc = "runner_ret" /\ action = "follow") => success <= DistinctAuthors(selected_casts)

\* C7 as amended: in a Follow run the number of successful follow calls, which
\* is the size of the followed set, never exceeds the number of distinct
\* authors among the selected targets; the success count returned also counts
\* every skipped repeat of a followed author, and never exceeds the number of
\* selected targets
C7_FollowCallsWithinAuthors ==
    (InRunner /\ action = "follow") =>
        /\ Count(results, "ok") <= DistinctAuthors(selected_casts)
        /\ Cardinality(followed_fids) = Count(results, "ok")
        /\ success_count = Count(results, "ok") + Count(results, "skipped")
        /\ success_count <= Len(selected_casts)
        /\ pc = "runner_ret" => success = success_count

C7_Witness ==
    /\ pc = "runner_ret"
    /\ action = "follow"
    /\ success > DistinctAuthors(selected_casts)

\* C8 as claimed: a Follow run over targets with k distinct authors issues
\* exactly k follow calls, whatever the calls return
C8_FollowCallsEqualAuthors ==
    (pc = "runner_ret" /\ action = "follow") => api_calls = DistinctAuthors(selected_casts)

\* the target at position i repeats an author whose follow call succeeded before
FollowedBefore(i) ==
    \E j \in 1..(i - 1) : selected_casts[j].fid = selected_casts[i].fid /\ results[j] = "ok"

\* C8 as amended: a Follow run that returns has issued at least k follow calls
\* (k the distinct authors among its selected targets) and at most one per
\* selected target, and exactly k when no follow call failed; a target is
\* counted as a success without a call exactly when a follow call for its
\* author succeeded earlier in the run, so the repeat of an author whose call
\* failed is called again
C8_FollowCallsAtLeastAuthors ==
    (InRunner /\ action = "follow") =>
        /\ \A i \in DOMAIN results : results[i] = "skipped" <=> FollowedBefore(i)
        /\ pc \in {"loop", "runner_ret"} =>
              api_calls = Len(results) - Count(results, "skipped")
        /\ (pc = "runner_ret" /\ selected_casts # <<>>) =>
              /\ Len(results) = Len(selected_casts)
              /\ api_calls >= DistinctAuthors(selected_casts)
              /\ api_calls <= Len(selected_casts)
              /\ Count(results, "failed") = 0 => api_calls = DistinctAuthors(selected_casts)

C8_Witness ==
    /\ pc = "runner_ret"
    /\ action = "follow"
    /\ Len(selected_casts) = 3
    /\ api_calls = 3
    /\ DistinctAuthors(selected_casts) = 2

\* C9: when get_feed returns m usable targets with 0 < m < the target count
\* asked for, the runner reduces its target to m, selects m targets, runs one
\* loop iteration per target and returns a success count <= m
C9_FeedScarcity ==
    (InRunner /\ feed_count > 0 /\ feed_count < requested) =>
        /\ target_count = feed_count
        /\ Len(selected_casts) = feed_count
        /\ Len(results) <= feed_count
        /\ pc = "runner_ret" =>
              /\ Len(results) = feed_count
              /\ idx = feed_count + 1
              /\ success <= feed_count

C9_Witness ==
    /\ pc = "runner_ret"
    /\ feed_count = 2
    /\ requested = 3
    /\ Len(results) = 2

\* the run of C10: one account, batch_size 50, the plan {like: 120}, single pass
Scenario ==
    /\ mode = "focus"
    /\ Len(accounts) = 1
    /\ batch_size = 50
    /\ selected_actions = <<"like">>
    /\ action_targets["like"] = 120

IsPrefix(s, t) == Len(s) <= Len(t) /\ \A i \in DOMAIN s : s[i] = t[i]

\* C10: in that run the runner is called for the batches 50, 50, 20 in this
\* order and for no other; a wait follows each batch but the last, so that the
\* run ends with three batches and two waits and at most 120 likes counted
C10_ThreeBatchesTwoWaits ==
    Scenario =>
        /\ IsPrefix(batches, <<50, 50, 20>>)
        /\ pc = "batch" => batch_waits = Len(batches)
        /\ InRunner => batch_waits = Len(batches) - 1
        /\ pc = "done" =>
              /\ batches = <<50, 50, 20>>
              /\ batch_count = 3
              /\ batch_waits = 2
              /\ total_stats["like"] <= 120

C10_Witness ==
    /\ Scenario
    /\ pc = "done"
    /\ batches = <<50, 50, 20>>
    /\ batch_waits = 2
    /\ total_stats["like"] > 0

\* C11: in both modes every call of execute_focused_action is passed a target
\* count <= batch_size, a larger target having gone through the batch loop
C11_RunnerTargetWithinBatch == InRunner => requested <= batch_size

\* C12: no failure of a remote call ends the run: whatever the remote API
\* answers, the process is never ended by an exception, and whenever the
\* controller stops it has finished its last account
C12_FailuresNeverAbort ==
    /\ pc # "crashed"
    /\ error = "none"
    /\ (mode = "focus" /\ ~ENABLED Next) =>
          pc = "done" /\ account_idx = Len(accounts)

\* C13: get_feed returns a failure, (False, []), exactly when make_request
\* returned no response or a status other than 200, and also for a 200 answer
\* whose body cannot be parsed, so that it never raises; a 200 answer with no
\* usable item is returned as a success with an empty list
C13_FeedFetcherOutcomes ==
    /\ pc = "feed_ret" =>
          /\ feed_success <=> (~response.is_none /\ response.status_code = 200)
          /\ ~feed_success => cast_data = <<>>
    /\ error # "JSONDecodeError"

\* the journal entries of account i, in order
Own(i) == SelectSeq(journal, LAMBDA e : e.account = i)

\* the positions of the journal that hold an entry of this kind
Entries(what) == { k \in DOMAIN journal : journal[k].what = what }

\* C14: for each account of a pass, with posting enabled and a message loaded
\* the first call is the one post call of that account, the post-delay sleep
\* follows it whether it returned True or False, and every runner call of the
\* account comes after both; with posting disabled or no message loaded there
\* is no post call and no post-delay sleep; the Post counter is the number of
\* post calls of the pass that returned True
C14_PostStep ==
    /\ \A i \in DOMAIN accounts :
          LET own == Own(i) IN
          IF post_cast /\ messages # <<>>
          THEN /\ \A k \in DOMAIN own : own[k].what = "post" <=> k = 1
               /\ \A k \in DOMAIN own : own[k].what = "post_wait" <=> k = 2
               /\ Len(own) >= 2 => own[1].got \in {0, 1}
          ELSE \A k \in DOMAIN own : own[k].what \notin {"post", "post_wait"}
    /\ "posts" \in DOMAIN total_stats =>
          total_stats["posts"] =
              Cardinality({ k \in Entries("post") : journal[k].got = 1 })
    /\ InRunner => account_idx \in DOMAIN accounts /\ Own(account_idx) # <<>>

C14_Witness ==
    /\ InRunner
    /\ account_idx = 2
    /\ Len(Own(1)) >= 3 /\ Own(1)[1].what = "post" /\ Own(1)[1].got = 1
    /\ Len(Own(2)) = 3 /\ Own(2)[1].what = "post" /\ Own(2)[1].got = 0
    /\ Own(2)[2].what = "post_wait"
    /\ total_stats["posts"] = 1

\* the pass has called the runner for every selected action of account i, and
\* each of these calls has returned
Processed(i) ==
    \A a \in Range(selected_actions) :
        \E k \in DOMAIN journal :
            journal[k].account = i /\ journal[k].what = a /\ journal[k].got # Pending

\* In continuous mode the cycle number is the number of cycles begun, a cycle
\* after the first begins only when the cycle before it has processed every
\* account, printed its statistics and slept interval_hours * 3600 seconds in
\* the countdown, and the controller never returns
CycleOrder ==
    mode = "continuous" =>
        /\ cycle = (IF pc = "start" THEN started + 1 ELSE started)
        /\ (pc = "start" /\ cycle > 1) =>
              /\ \A i \in DOMAIN accounts : Processed(i)
              /\ report = total_stats /\ DOMAIN report # {}
              /\ waited = interval_hours * 3600
        /\ pc # "done"

\* C15: in continuous mode cycle n+1 begins only after cycle n has processed
\* every account, reported its statistics and run the countdown of
\* interval_hours * 3600 seconds to its end, the cycle counter goes up by one
\* per cycle, and the controller has no terminal state: after every cycle
\* (followed up to cycle MaxCycles) the next one eventually starts
C15_CyclesForever ==
    /\ []CycleOrder
    /\ \A n \in 1..MaxCycles :
          (mode = "continuous" /\ cycle = n) ~> (cycle = n + 1)

\* the sum of the counts the calls of this kind have returned so far
RECURSIVE SumGot(_, _)
SumGot(j, what) ==
    IF j = <<>> THEN 0
    ELSE (IF Head(j).what = what /\ Head(j).got # Pending THEN Head(j).got ELSE 0)
         + SumGot(Tail(j), what)

\* the run or cycle has just printed its statistics
AtReport == pc = "done" \/ (pc = "start" /\ started > 0)

\* C16: the statistics start from zero in every run and every cycle, and at
\* every moment the count of an action kind is the sum of the success counts
\* that the runner calls for that kind have returned since the run or cycle
\* began, over all its batches and accounts; the statistics printed at the end
\* of the run or cycle are these sums
C16_StatsPerCycle ==
    /\ \A a \in DOMAIN total_stats \ {"posts"} : total_stats[a] = SumGot(journal, a)
    /\ (pc = "account" /\ account_idx = 1) =>
          \A a \in DOMAIN total_stats : total_stats[a] = 0
    /\ AtReport =>
          /\ DOMAIN report = Range(selected_actions) \cup (IF post_cast THEN {"posts"} ELSE {})
          /\ \A a \in Range(selected_actions) : report[a] = SumGot(journal, a)
          /\ \A i \in DOMAIN accounts : Processed(i)

C16_Witness ==
    /\ mode = "continuous"
    /\ pc = "start"
    /\ cycle = 3
    /\ Len(accounts) = 2
    /\ selected_actions = <<"like">>
    /\ report["like"] = 2
    /\ Cardinality(Entries("like")) = 2

Kinds == {"like", "recast", "follow"}

\* the place of an action kind in the plan as selected
PlanPos(a) == CHOOSE p \in DOMAIN selected_actions : selected_actions[p] = a

\* the positions of the journal that hold a runner call
RunnerCalls == { k \in DOMAIN journal : journal[k].what \in Kinds }

\* the runner calls of the journal, in order
RunnerCallSeq == SelectSeq(journal, LAMBDA e : e.what \in Kinds)

\* C17: the calls of a pass are made one after the other, account by account
\* in load order and for each account kind by kind in the plan's declared
\* order: every call has returned before the next is made; the first runner
\* call is for the first account and the first kind of the plan; every later
\* runner call is for the same account and kind as the one before it (a
\* further batch), or for the same account and the next kind of the plan, or,
\* when the one before was for the last kind of the plan, for the first kind
\* and the next account; and no entry for an account follows one for a later
\* account
C17_PlanOrder ==
    /\ \A k \in 1..(Len(journal) - 1) :
          /\ journal[k].got # Pending
          /\ journal[k].account <= journal[k + 1].account
    /\ LET calls == RunnerCallSeq IN
        \A k \in DOMAIN calls :
          LET pos == PlanPos(calls[k].what) IN
          /\ calls[k].what \in Range(selected_actions)
          /\ IF k = 1
             THEN calls[k].account = 1 /\ pos = 1
             ELSE \/ /\ calls[k].account = calls[k - 1].account
                     /\ PlanPos(calls[k - 1].what) \in {pos, pos - 1}
                  \/ /\ calls[k].account = calls[k - 1].account + 1
                     /\ pos = 1
                     /\ PlanPos(calls[k - 1].what) = Len(selected_actions)
    /\ InRunner =>
          /\ journal # <<>>
          /\ journal[Len(journal)] = Called(account_idx, action, requested)

C17_Witness ==
    /\ pc = "done"
    /\ Len(accounts) = 2
    /\ selected_actions = <<"like", "recast", "follow">>
    /\ Cardinality(RunnerCalls) = 6
    /\ journal[Len(journal)].account = 2
    /\ journal[Len(journal)].what = "follow"

\* the target counts the runner was called with for account i and this kind, summed
RECURSIVE SumAsked(_, _, _)
SumAsked(j, i, what) ==
    IF j = <<>> THEN 0
    ELSE (IF Head(j).account = i /\ Head(j).what = what THEN Head(j).asked ELSE 0)
         + SumAsked(Tail(j), i, what)

\* A single pass that has ended has run the plan once for every account, in
\* load order: for each account and each selected kind the runner was called
\* for the whole target, each call returned, and the sleep before the next
\* account came after the calls of every account but the last
SinglePass ==
    (mode = "focus" /\ pc = "done") =>
        /\ account_idx = Len(accounts)
        /\ \A i \in DOMAIN accounts :
              /\ Processed(i)
              /\ \A a \in Range(selected_actions) :
                    SumAsked(journal, i, a) = action_targets[a]
              /\ LET own == Own(i)
                      sleeps == { k \in DOMAIN own : own[k].what = "account_wait" }
                  IN  sleeps = (IF i < Len(accounts) THEN {Len(own)} ELSE {})
        /\ \A k, l \in DOMAIN journal : k < l => journal[k].account <= journal[l].account
        /\ \A k \in DOMAIN journal : journal[k].got # Pending

\* C18: a single pass over a finite account list with finite positive targets
\* eventually ends, and when it ends it has run the plan exactly once for
\* every account in load order, with a sleep after every account but the last
C18_SinglePassTerminates ==
    /\ []SinglePass
    /\ mode = "focus" => <>(pc = "done")

\* the last request of the call got an answer that was not a 429
LastAnswered == attempts # <<>> /\ attempts[Len(attempts)].result = "response"

\* C19: the first answer with a status other than 429 ends the call: it is
\* the call's last request, no sleep follows it, and the caller gets the
\* response with that very status, a non-2xx status included; a response is
\* returned in no other way
C19_FirstAnswerReturned ==
    /\ \A i \in DOMAIN attempts :
          attempts[i].result = "response" =>
              /\ i = Len(attempts)
              /\ ~attempts[i].slept
              /\ attempts[i].status # 429
    /\ LastAnswered =>
          /\ pc # "request"
          /\ response = [is_none |-> FALSE, status_code |-> attempts[Len(attempts)].status]
    /\ (Returned /\ ~response.is_none) => LastAnswered

C19_Witness ==
    /\ Returned
    /\ Len(attempts) = 3
    /\ attempts[1].result = "429"
    /\ attempts[2].result = "exception"
    /\ attempts[3].result = "response"
    /\ response.status_code = 404

\* the targets processed so far that were not short-circuited
NotSkipped == { i \in DOMAIN results : results[i] # "skipped" }

\* C20: in a Follow run a target is short-circuited exactly when a follow call
\* for its author id returned success earlier in the same invocation; a
\* short-circuited target counts as a success and costs no follow call and no
\* delay; the followed set holds the authors of the successful calls only, so
\* the next occurrence of an author whose call failed is called again
C20_FollowShortCircuit ==
    (InRunner /\ action = "follow" /\ pc \in {"loop", "runner_ret"}) =>
        /\ \A i \in DOMAIN results :
              results[i] = "skipped" <=>
                  \E j \in 1..(i - 1) :
                      selected_casts[j].fid = selected_casts[i].fid /\ results[j] = "ok"
        /\ followed_fids = { selected_casts[i].fid : i \in { j \in DOMAIN results : results[j] = "ok" } }
        /\ api_calls = Cardinality(NotSkipped)
        /\ delays = Cardinality({ i \in NotSkipped : i < Len(selected_casts) })
        /\ success_count = Cardinality({ i \in DOMAIN results : results[i] # "failed" })

C20_Witness ==
    /\ pc = "runner_ret"
    /\ action = "follow"
    /\ results = <<"failed", "ok">>
    /\ selected_casts[1].fid = selected_casts[2].fid
    /\ api_calls = 2
    /\ delays = 1

\* With a failed or an empty feed the runner has returned 0 after its one
\* get_feed call, having selected no target, issued no like, recast or follow
\* call and slept no delay; a runner that returns without a target had such
\* a feed
NoTargetsReturn ==
    /\ (pc = "feed_ret" /\ (~feed_success \/ cast_data = <<>>)) =>
          /\ ENABLED FeedEmpty
          /\ ~ENABLED SelectTargets
          /\ selected_casts = <<>> /\ results = <<>>
          /\ api_calls = 0 /\ delays = 0 /\ feed_fetches = 1
    /\ (pc = "runner_ret" /\ selected_casts = <<>>) =>
          /\ success = 0
          /\ results = <<>>
          /\ api_calls = 0 /\ delays = 0 /\ feed_fetches = 1
          /\ endpoint = "none"

\* C21: a feed fetch that fails, or that yields no usable target, makes the
\* runner return 0 with no like, recast or follow call, no delay and no second
\* fetch; the failure of the fetch is never propagated as an error, so the
\* process is never ended inside the runner's feed fetch
C21_NoTargetsReturnsZero ==
    /\ NoTargetsReturn
    /\ ~(pc = "crashed" /\ endpoint = "feed-items")

\* the targets processed so far for which an action executor was called
Acted == { i \in DOMAIN results : results[i] \in {"ok", "failed"} }

\* C22: within one invocation of the runner the target count is, after the
\* reduction for a short feed, the number of selected targets; every like,
\* recast or follow call, successful or failed, on a target before the last
\* selected one has been followed by exactly one jittered delay, of the range
\* of its action kind, and the call on the last selected target by none
C22_DelayAfterEachButLast ==
    (InRunner /\ pc \in {"loop", "runner_ret"} /\ selected_casts # <<>>) =>
        /\ target_count = Len(selected_casts)
        /\ target_count = Min(requested, feed_count)
        /\ Len(results) = idx - 1
        /\ api_calls = Cardinality(Acted)
        /\ delays = Cardinality(Acted \ {target_count})
        /\ delays > 0 => wait = ActionDelay(action)

C22_Witness ==
    /\ pc = "runner_ret"
    /\ action = "like"
    /\ requested = 3
    /\ feed_count = 2
    /\ results = <<"failed", "ok">>
    /\ api_calls = 2
    /\ delays = 1

\* One call of make_request issues at most max_retries requests whatever the
\* answers: while it runs it has issued as many requests as the attempt
\* number, which is below max_retries, and when it returns it returns the
\* first answer that was not a 429, or None after exactly max_retries
\* requests, each of them a 429 answer or a transport failure
RequestBound ==
    /\ Len(attempts) <= max_retries
    /\ pc = "request" =>
          /\ Len(attempts) = attempt
          /\ attempt < max_retries
          /\ \A i \in DOMAIN attempts : attempts[i].result \in {"429", "exception"}
    /\ Returned =>
          /\ \A i \in 1..(Len(attempts) - 1) : attempts[i].result \in {"429", "exception"}
          /\ IF LastAnswered
             THEN ~response.is_none
             ELSE response.is_none /\ Len(attempts) = max_retries

\* C23: one call of make_request issues at most max_retries HTTP requests in
\* total, whatever mix of 429 answers and transport failures it receives, and
\* every call returns to its caller, with a response or with None
C23_RequestAlwaysReturns ==
    /\ []RequestBound
    /\ (pc = "request") ~> Returned

\* the runner's get_feed call is running or has just returned
FetchingFeed ==
    \/ pc \in {"get_feed", "feed_ret"}
    \/ pc = "request" /\ endpoint = "feed-items"

\* an earlier target of this invocation with the author of target i was
\* followed with success
FollowedHere(i) ==
    \E j \in 1..(i - 1) :
        selected_casts[j].fid = selected_casts[i].fid /\ results[j] = "ok"

\* C24: every invocation of the runner, whatever the batch, account or cycle
\* it is called for, issues exactly one feed fetch, before its first like,
\* recast or follow call, and starts with an empty followed set: its followed
\* set holds authors followed by this invocation only, so a target whose
\* author was followed with success by an earlier invocation for the account
\* (an earlier batch) and not yet by this one gets a follow call
C24_FreshFollowedSet ==
    /\ InRunner => feed_fetches = 1
    /\ FetchingFeed =>
          /\ api_calls = 0
          /\ results = <<>>
          /\ followed_fids = {}
    /\ (InRunner /\ action = "follow" /\ pc = "loop") =>
          /\ followed_fids \subseteq
                { selected_casts[i].fid : i \in { j \in DOMAIN results : results[j] = "ok" } }
          /\ \A i \in DOMAIN results :
                (selected_casts[i].fid \in followed_before /\ ~FollowedHere(i))
                    => results[i] \in {"ok", "failed"}
          /\ (idx <= Len(selected_casts) /\ ~FollowedHere(idx)) =>
                ENABLED LoopCall /\ ~ENABLED LoopSkip

C24_Witness ==
    /\ pc = "loop"
    /\ action = "follow"
    /\ batching
    /\ batch_count = 2
    /\ selected_casts[1].fid \in followed_before
    /\ results = <<"ok">>
    /\ api_calls = 1
    /\ feed_fetches = 1

=============================================================================
